---------------------------- MODULE Spec2Model ----------------------------
(***************************************************************************)
(* JourneyChart (src/src/visual.ts): the Visual object that turns a        *)
(* categorical data view into the node/link graph of the journey chart.    *)
(*                                                                         *)
(* Representation of JavaScript values:                                    *)
(*   - a string is a sequence of atoms; the atom "***" is the text '***',  *)
(*     so that concatenation is \o and split('***') cuts at that atom;     *)
(*   - null and undefined primitive values are the one-atom sequences      *)
(*     NullValue and UndefValue (atoms no string contains);                *)
(*   - a number is a record [t, n, d]: the fraction n/d when t = "fin",    *)
(*     NaN, +Infinity or -Infinity otherwise;                              *)
(*   - a call that throws yields fault = TRUE in the record it returns.    *)
(***************************************************************************)
EXTENDS Integers, Sequences, FiniteSets, TLC

VARIABLES
    visual,     \* the Visual's fields (dataViews, data, legendDataPoints, idGen, ...)
    events,     \* what update reported to the host's event service, in order
    returned,   \* what the last call of converter returned (or that it threw)
    options,    \* the data view the host passes to update (options.dataViews[0])
    nChanges,   \* how often the host has replaced that data view
    firstBuild, \* the first call of converter: its data view and what it returned
    errorMessage, \* the text the #errorMessage element shows, if it is shown
    simulation, \* the force simulation the last update created, if it created one
    superseded, \* the simulations earlier updates created: none is ever stopped
    layout,     \* x, y, fx, fy of the nodes of this.data, as the simulation set them
    dragging,   \* the node (1, 2, ...) a drag gesture holds, 0 when there is none
    lastTick,   \* whose tick callback ran last: no one's, the current simulation's
                \* or a superseded one's
    selected,   \* the circle (1, 2, ...) that has the class 'selected', 0 for none
    managerIds, \* the selection ids the host's selection manager holds
    panZoomBound, \* whether the svg has the pan and zoom handlers of some update
    nInputs     \* how many pointer events the user has made

vars == <<visual, events, returned, options, nChanges, firstBuild, errorMessage,
          simulation, superseded, layout, dragging, lastTick, selected, managerIds,
          panZoomBound, nInputs>>

----------------------------------------------------------------------------
(* Strings and primitive values *)

Str(a) == <<a>>
EmptyStr == <<>>
SepAtom == "***"
NoneStr == Str("none")
NullValue == Str("#null")
UndefValue == Str("#undefined")

\* x.toString() throws a TypeError on null and on undefined
ThrowsToString(x) == x = NullValue \/ x = UndefValue

\* array[i] with a 0-based index: undefined outside the array
At(arr, i) == IF i >= 0 /\ i < Len(arr) THEN arr[i + 1] ELSE UndefValue

Range(f) == {f[x] : x \in DOMAIN f}

RECURSIVE split(_)
\* combinedID.split('***')
split(s) ==
    IF \E i \in 1..Len(s) : s[i] = SepAtom
    THEN LET i == CHOOSE k \in 1..Len(s) :
                     s[k] = SepAtom /\ \A j \in 1..(k - 1) : s[j] # SepAtom
         IN  <<SubSeq(s, 1, i - 1)>> \o split(SubSeq(s, i + 1, Len(s)))
    ELSE <<s>>

\* n.toString() of an integer, and the number a string of digits parses to
NumToString(n) == [ty |-> "string", n |-> n]
NumberId(n) == [ty |-> "number", n |-> n]
parseFloatId(s) == s.n

----------------------------------------------------------------------------
(* Numbers *)

RECURSIVE GCD(_, _)
GCD(a, b) == IF b = 0 THEN a ELSE GCD(b, a % b)

Abs(x) == IF x < 0 THEN -x ELSE x

Num(n) == [t |-> "fin", n |-> n, d |-> 1]
NaN == [t |-> "nan", n |-> 0, d |-> 1]
PosInf == [t |-> "pinf", n |-> 0, d |-> 1]
NegInf == [t |-> "ninf", n |-> 0, d |-> 1]
\* a value that is no number: null, undefined, or the string '0'
NullNum == [t |-> "null", n |-> 0, d |-> 1]
UndefNum == [t |-> "undefined", n |-> 0, d |-> 1]
StringZero == [t |-> "string", n |-> 0, d |-> 1]

Frac(n, d) ==
    LET g == GCD(Abs(n), Abs(d))
        s == IF d < 0 THEN -1 ELSE 1
    IN  [t |-> "fin", n |-> (s * n) \div g, d |-> (s * d) \div g]

\* x + y of two numbers
Add(x, y) ==
    IF x.t = "nan" \/ y.t = "nan" THEN NaN
    ELSE IF x.t = "fin" /\ y.t = "fin" THEN Frac(x.n * y.d + y.n * x.d, x.d * y.d)
    ELSE IF x.t = "fin" THEN y
    ELSE IF y.t = "fin" THEN x
    ELSE IF x.t = y.t THEN x ELSE NaN

\* x / y of two numbers
Div(x, y) ==
    IF x.t = "nan" \/ y.t = "nan" THEN NaN
    ELSE IF x.t = "fin" /\ y.t = "fin"
         THEN IF y.n = 0
              THEN IF x.n = 0 THEN NaN ELSE IF x.n > 0 THEN PosInf ELSE NegInf
              ELSE Frac(x.n * y.d, x.d * y.n)
    ELSE IF x.t = "fin" THEN Num(0)
    ELSE IF y.t = "fin" THEN (IF (x.t = "pinf") = (y.n >= 0) THEN PosInf ELSE NegInf)
    ELSE NaN

(* A measure value as the data view holds it: [k, v] with k = "num" (the   *)
(* number v), "str" (a text that is no number), "null" or "undefined".     *)
MNum(v) == [k |-> "num", v |-> v]
MStr == [k |-> "str", v |-> 0]
MNull == [k |-> "null", v |-> 0]
MUndef == [k |-> "undefined", v |-> 0]

AtM(arr, i) == IF i >= 0 /\ i < Len(arr) THEN arr[i + 1] ELSE MUndef

ThrowsToStringM(m) == m.k = "null" \/ m.k = "undefined"

\* parseFloat(m.toString()), where m.toString() does not throw
parseFloat(m) == IF m.k = "num" THEN Num(m.v) ELSE NaN

\* isNaN(+m)
isNaNPlus(m) == m.k = "str" \/ m.k = "undefined"

\* the value itself, as a node's numberOfLeads holds it
AsNumber(m) ==
    CASE m.k = "num" -> Num(m.v)
      [] m.k = "str" -> NaN
      [] m.k = "null" -> NullNum
      [] OTHER -> UndefNum

----------------------------------------------------------------------------
(* Row selection ids.  selection[j] is the object {selectionId: <id of row *)
(* j>}; a node's selectionId is an array whose elements are such objects   *)
(* or, after catLen1..catLen3, the arrays of other nodes.                  *)

SelObj(j) == [t |-> "object", i |-> j, a |-> <<>>]
SelArr(s) == [t |-> "array", i |-> 0, a |-> s]
SelUndef == [t |-> "undefined", i |-> 0, a |-> <<>>]

AtS(arr, i) == IF i >= 0 /\ i < Len(arr) THEN arr[i + 1] ELSE SelUndef

\* array.push(x)
Push(arr, x) == SelArr(Append(arr.a, x))

\* filter(getDistinctElements): self.indexOf(val) === i
getDistinctElements(self, i) == \A j \in 1..(i - 1) : self[j] # self[i]

Distinct(self) == SelectSeq([i \in 1..Len(self) |-> <<self[i], getDistinctElements(self, i)>>],
                            LAMBDA p : p[2])

DistinctValues(self) == LET d == Distinct(self) IN [i \in 1..Len(d) |-> d[i][1]]


----------------------------------------------------------------------------
(* Results of the methods: the fields of the Visual and the graph as the   *)
(* call left them, and whether the call threw.                             *)

Ret(this, data) == [this |-> this, data |-> data, fault |-> FALSE]
Throw(this, data) == [this |-> this, data |-> data, fault |-> TRUE]

\* getDefaultData
getDefaultData == [nodes |-> <<>>, links |-> <<>>]

RECURSIVE SumRows(_, _, _, _)
\* the loop "for iRow ... sum += term": term[iRow] is the number row iRow adds
SumRows(term, iRow, totalValues, sum) ==
    IF iRow >= totalValues THEN sum
    ELSE SumRows(term, iRow + 1, totalValues, Add(sum, term[iRow]))

\* calAggregate: [fault, v]
calAggregate(this, combinedID, totalValues) ==
    LET categories == this.dataViews.categorical.categories
        measure == this.dataViews.categorical.values[1].values
        rows == 0..(totalValues - 1)
    IN  IF combinedID # NoneStr
        THEN LET hierarchyArray == split(combinedID)
                 level == Len(hierarchyArray) - 1
                 value(iLevel, iRow) == At(categories[iLevel + 1].values, iRow)
                 counted(iRow) ==
                     \A iLevel \in 0..level : value(iLevel, iRow) = hierarchyArray[iLevel + 1]
                 throws(iRow) ==
                     \/ \E iLevel \in 0..level :
                            \/ iLevel >= Len(categories)
                            \/ ThrowsToString(value(iLevel, iRow))
                     \/ counted(iRow) /\ ThrowsToStringM(AtM(measure, iRow))
                 term == [iRow \in rows |->
                             IF counted(iRow) THEN parseFloat(AtM(measure, iRow)) ELSE Num(0)]
             IN  IF \E iRow \in rows : throws(iRow)
                 THEN [fault |-> TRUE, v |-> NaN]
                 ELSE [fault |-> FALSE, v |-> SumRows(term, 0, totalValues, Num(0))]
        ELSE LET term == [iRow \in rows |-> parseFloat(AtM(measure, iRow))]
             IN  IF \E iRow \in rows : ThrowsToStringM(AtM(measure, iRow))
                 THEN [fault |-> TRUE, v |-> NaN]
                 ELSE [fault |-> FALSE, v |-> SumRows(term, 0, totalValues, Num(0))]

BlackColor == Str("#000")

RECURSIVE colorLoop(_, _, _, _)
\* the loop over legendDataPoints that returns the first entry's color for which
\* hit[iCounter] holds, '#000' when there is none, undefined when the legend is empty
colorLoop(legendDataPoints, hit, iCounter, color) ==
    IF iCounter > Len(legendDataPoints) THEN color
    ELSE IF hit[iCounter] THEN legendDataPoints[iCounter].color
    ELSE colorLoop(legendDataPoints, hit, iCounter + 1, BlackColor)

\* calNodesNLinksColor
calNodesNLinksColor(this, splitId) ==
    colorLoop(this.legendDataPoints,
              [iCounter \in 1..Len(this.legendDataPoints) |->
                  splitId[1] = this.legendDataPoints[iCounter].category],
              1, UndefValue)

\* the text of a primitive value in a string concatenation
Concat(x) ==
    IF x = NullValue THEN Str("null") ELSE IF x = UndefValue THEN Str("undefined") ELSE x

\* rows iRow whose values in the category columns 0..level-1 equal splitId,
\* component by component (the cnt === level test); splitId[cat] is undefined
\* past the end of splitId
rowMatches(catDataset, splitId, level, iRow) ==
    \A cat \in 0..(level - 1) :
        /\ cat < Len(splitId)
        /\ At(catDataset[cat + 1].values, iRow) = splitId[cat + 1]

\* whether reading row iRow's values in the columns 0..level-1 throws
rowThrows(catDataset, level, iRow) ==
    \E cat \in 0..(level - 1) : ThrowsToString(At(catDataset[cat + 1].values, iRow))

----------------------------------------------------------------------------
(* calNodesNLinks *)

RECURSIVE measureLoop(_, _, _, _, _, _, _, _)
\* the loop over this.measureData that emits the measure-stage chain of row iRow
measureLoop(this, data, iCounter, iRow, level, parentId, color, selection) ==
    IF iCounter >= Len(this.measureData) THEN Ret(this, data)
    ELSE IF this.measureData[iCounter + 1].source.roles.root
    THEN measureLoop(this, data, iCounter + 1, iRow, level, parentId, color, selection)
    ELSE
        LET measureIdGen == this.measureIdGen + 1
            this1 == [this EXCEPT !.measureIdGen = measureIdGen]
            measureNewId == NumToString(measureIdGen)
            raw == AtM(this.measureData[iCounter + 1].values, iRow)
            measureValue == IF isNaNPlus(raw) THEN StringZero ELSE AsNumber(raw)
            previous == AtM(this.measureData[iCounter].values, iRow)
            throws ==
                iCounter # 0 /\ (measureValue.t = "null" \/ ThrowsToStringM(previous))
            percentage ==
                IF iCounter = 0 THEN Num(1)
                ELSE Div(IF measureValue.t = "string" THEN Num(0) ELSE measureValue,
                         parseFloat(previous))
            node == [id |-> measureNewId,
                     program |-> this.measureData[iCounter + 1].source.displayName,
                     name |-> this.measureData[iCounter + 1].source.displayName,
                     group |-> NumToString(level + 1),
                     numberOfLeads |-> measureValue,
                     percentage |-> percentage,
                     description |-> this.measureData[iCounter + 1].source.displayName,
                     color |-> color,
                     selectionId |-> AtS(selection, this.selectionArrayIndex)]
            link == [source |-> IF iCounter = 0 THEN NumToString(parentId)
                                ELSE NumberId(measureIdGen - 1),
                     target |-> measureNewId,
                     value |-> measureValue]
        IN  IF throws THEN Throw(this1, data)
            ELSE measureLoop(this1,
                             [nodes |-> Append(data.nodes, node),
                              links |-> Append(data.links, link)],
                             iCounter + 1, iRow, level, parentId, color, selection)

RECURSIVE stageRows(_, _, _, _, _, _, _, _)
RECURSIVE afterChain(_, _, _, _, _, _, _)

\* the loop over the rows in the branch taken below the last category column
stageRows(this, data, catDataset, splitId, iRow, level, parentId, selection) ==
    IF iRow >= this.totalValues THEN Ret(this, data)
    ELSE IF rowThrows(catDataset, level, iRow) THEN Throw(this, data)
    ELSE IF ~rowMatches(catDataset, splitId, level, iRow)
    THEN stageRows(this, data, catDataset, splitId, iRow + 1, level, parentId, selection)
    ELSE afterChain(measureLoop(this, data, 0, iRow, level, parentId,
                                calNodesNLinksColor(this, splitId), selection),
                    catDataset, splitId, iRow, level, parentId, selection)

\* this.selectionArrayIndex++ after the chain of row iRow, and the rows after it
afterChain(chain, catDataset, splitId, iRow, level, parentId, selection) ==
    IF chain.fault THEN chain
    ELSE stageRows([chain.this EXCEPT !.selectionArrayIndex = @ + 1], chain.data,
                   catDataset, splitId, iRow + 1, level, parentId, selection)

RECURSIVE filterRows(_, _, _, _, _, _)
\* filteredData: the level-th value of every row that matches splitId
filterRows(this, catDataset, splitId, iRow, level, filteredData) ==
    IF iRow >= this.totalValues THEN filteredData
    ELSE filterRows(this, catDataset, splitId, iRow + 1, level,
                    IF rowMatches(catDataset, splitId, level, iRow)
                    THEN Append(filteredData, At(catDataset[level + 1].values, iRow))
                    ELSE filteredData)

\* uniqueElements
uniqueElements(this, catDataset, combinedID, level) ==
    IF combinedID # EmptyStr
    THEN DistinctValues(filterRows(this, catDataset, split(combinedID), 0, level, <<>>))
    ELSE DistinctValues(catDataset[1].values)

\* the color a category node gets: the first legend entry whose category is the
\* key's first component or the element's own text
elementColor(this, splitId, element) ==
    colorLoop(this.legendDataPoints,
              [iCounter \in 1..Len(this.legendDataPoints) |->
                  \/ this.legendDataPoints[iCounter].category = splitId[1]
                  \/ this.legendDataPoints[iCounter].category = element],
              1, UndefValue)

\* whether element.toString() is reached, and throws, in that loop
elementColorThrows(this, splitId, element) ==
    /\ ThrowsToString(element)
    /\ \E iCounter \in 1..Len(this.legendDataPoints) :
           \A j \in 1..iCounter : this.legendDataPoints[j].category # splitId[1]

\* newCombinedID
newCombinedID(combinedID, level, element) ==
    IF level = 0 THEN element ELSE combinedID \o Str(SepAtom) \o Concat(element)

\* a percentage computed the wrong way round: the parent's aggregate over the
\* node's own
nodePercentageInverted(calNumberOfLeads, parentSum) == Div(parentSum, calNumberOfLeads)

\* percentage of a category node
nodePercentage(calNumberOfLeads, parentSum) == Div(calNumberOfLeads, parentSum)

RECURSIVE calNodesNLinks(_, _, _, _, _, _, _, _)
RECURSIVE forEachElement(_, _, _, _, _, _, _, _, _, _)
RECURSIVE pushElement(_, _, _, _, _, _, _, _, _, _, _, _)
RECURSIVE afterElement(_, _, _, _, _, _, _, _, _)

\* the body of uniqueElements.forEach, for the elements from index i on: the
\* color loop, the new id and key, and the aggregate of the new key
forEachElement(this, data, catDataset, elements, i, combinedID, level, parentId, parentSum, selection) ==
    IF i > Len(elements) THEN Ret(this, data)
    ELSE IF elementColorThrows(this, split(combinedID), elements[i]) THEN Throw(this, data)
    ELSE IF level = 0 /\ ThrowsToString(elements[i])
    THEN Throw([this EXCEPT !.idGen = @ + 1], data)
    ELSE pushElement([this EXCEPT !.idGen = @ + 1], data, catDataset, elements, i,
                     combinedID, level, parentId, parentSum, selection,
                     NumToString(this.idGen),
                     calAggregate(this, newCombinedID(combinedID, level, elements[i]),
                                  this.totalValues))

\* the link and the node of elements[i] are pushed and calNodesNLinks is called
\* for its key
pushElement(this, data, catDataset, elements, i, combinedID, level, parentId, parentSum, selection, newId, agg) ==
    LET element == elements[i]
        calNumberOfLeads == agg.v
        newID == newCombinedID(combinedID, level, element)
        link == [source |-> NumToString(parentId), target |-> newId,
                 value |-> calNumberOfLeads]
        node == [id |-> newId,
                 program |-> catDataset[level + 1].source.displayName,
                 name |-> element,
                 group |-> NumToString(level + 1),
                 numberOfLeads |-> calNumberOfLeads,
                 percentage |-> nodePercentage(calNumberOfLeads, parentSum),
                 description |-> newID,
                 color |-> elementColor(this, split(combinedID), element),
                 selectionId |-> SelArr(<<>>)]
    IN  IF agg.fault THEN Throw(this, data)
        ELSE afterElement(calNodesNLinks(this,
                                         [nodes |-> Append(data.nodes, node),
                                          links |-> Append(data.links, link)],
                                         catDataset, newID, level + 1, parseFloatId(newId),
                                         calNumberOfLeads, selection),
                          catDataset, elements, i, combinedID, level, parentId, parentSum,
                          selection)

\* the elements after elements[i]
afterElement(sub, catDataset, elements, i, combinedID, level, parentId, parentSum, selection) ==
    IF sub.fault THEN sub
    ELSE forEachElement(sub.this, sub.data, catDataset, elements, i + 1, combinedID,
                        level, parentId, parentSum, selection)

calNodesNLinks(this, data, catDataset, combinedID, level, parentId, parentSum, selection) ==
    IF level >= Len(catDataset)
    THEN IF Len(this.measureData) > 1 /\ this.measureDataLengthCount > 1
         THEN stageRows(this, data, catDataset, split(combinedID), 0, level, parentId,
                        selection)
         ELSE Ret(this, data)
    ELSE IF combinedID # EmptyStr /\ \E iRow \in 0..(this.totalValues - 1) :
                                        rowThrows(catDataset, level, iRow)
    THEN Throw(this, data)
    ELSE forEachElement(this, data, catDataset,
                        uniqueElements(this, catDataset, combinedID, level), 1,
                        combinedID, level, parentId, parentSum, selection)

----------------------------------------------------------------------------
(* addSelection, catLen1, catLen2, catLen3 *)

\* nodes[i] of the 0-based node array, with its selectionId replaced
SetSelection(nodes, i, selectionId) == [nodes EXCEPT ![i + 1].selectionId = selectionId]

RECURSIVE whileLoop(_, _, _, _)
(* The inner while loops of addSelection and catLen1..catLen3, which read   *)
(* nodes[++kCounter] and push onto acc, the selectionId of the node the     *)
(* outer loop is at.  w.same and w.program give the loop condition          *)
(* (program === w.program when w.same, program !== w.program otherwise),    *)
(* w.all and w.take say which of the nodes passed are pushed, and w.fixed / *)
(* w.item what is pushed: w.item, or the selectionId of the node passed.    *)
(* Returns [fault, acc].                                                    *)
whileLoop(nodes, acc, kCounter, w) ==
    LET k == kCounter + 1
    IN  IF k >= Len(nodes) THEN [fault |-> TRUE, acc |-> acc]
        ELSE LET node == nodes[k + 1]
                 taken == w.all \/ node.program = w.take
                 acc1 == IF taken
                         THEN Push(acc, IF w.fixed THEN w.item ELSE node.selectionId)
                         ELSE acc
             IN  IF (node.program = w.program) # w.same THEN [fault |-> FALSE, acc |-> acc]
                 ELSE IF taken /\ acc.t # "array" THEN [fault |-> TRUE, acc |-> acc]
                 ELSE IF k = Len(nodes) - 1 THEN [fault |-> FALSE, acc |-> acc1]
                 ELSE whileLoop(nodes, acc1, k, w)

RECURSIVE leafLoop(_, _, _, _, _)
\* addSelection, a single flow-stage measure at most: the deepest category
\* nodes take selection[0], selection[1], ... in node order
leafLoop(nodes, iCounter, jCounter, lastName, selection) ==
    IF iCounter >= Len(nodes) THEN [fault |-> FALSE, nodes |-> nodes]
    ELSE IF nodes[iCounter + 1].program # lastName
    THEN leafLoop(nodes, iCounter + 1, jCounter, lastName, selection)
    ELSE IF nodes[iCounter + 1].selectionId.t # "array" THEN [fault |-> TRUE, nodes |-> nodes]
    ELSE leafLoop(SetSelection(nodes, iCounter,
                               Push(nodes[iCounter + 1].selectionId, AtS(selection, jCounter))),
                  iCounter + 1, jCounter + 1, lastName, selection)

RECURSIVE leafStageLoop(_, _, _, _, _)
RECURSIVE afterLeaf(_, _, _, _, _, _)
\* addSelection, several flow-stage measures: a deepest category node takes
\* selection[yCounter] once for every node that follows it up to the next
\* deepest category node
leafStageLoop(nodes, nCounter, yCounter, lastName, selection) ==
    IF nCounter >= Len(nodes) THEN [fault |-> FALSE, nodes |-> nodes]
    ELSE IF nodes[nCounter + 1].program # lastName
    THEN leafStageLoop(nodes, nCounter + 1, yCounter, lastName, selection)
    ELSE afterLeaf(whileLoop(nodes, nodes[nCounter + 1].selectionId, nCounter,
                             [same |-> FALSE, program |-> lastName, all |-> TRUE,
                              take |-> lastName, fixed |-> TRUE,
                              item |-> AtS(selection, yCounter)]),
                   nodes, nCounter, yCounter, lastName, selection)

\* yCounter++ after the while loop of the deepest category node nCounter, and the
\* nodes after it
afterLeaf(r, nodes, nCounter, yCounter, lastName, selection) ==
    IF r.fault THEN [fault |-> TRUE, nodes |-> nodes]
    ELSE leafStageLoop(SetSelection(nodes, nCounter, r.acc), nCounter + 1, yCounter + 1,
                       lastName, selection)

RECURSIVE parentLoop(_, _, _, _)
RECURSIVE afterParent(_, _, _, _, _)
\* the outer loop of catLen1, catLen2 and catLen3: every node whose program is
\* name collects selectionIds by the while loop w
parentLoop(nodes, iCounter, name, w) ==
    IF iCounter >= Len(nodes) THEN [fault |-> FALSE, nodes |-> nodes]
    ELSE IF nodes[iCounter + 1].program # name THEN parentLoop(nodes, iCounter + 1, name, w)
    ELSE afterParent(whileLoop(nodes, nodes[iCounter + 1].selectionId, iCounter, w),
                     nodes, iCounter, name, w)

\* the nodes after node iCounter in that outer loop
afterParent(r, nodes, iCounter, name, w) ==
    IF r.fault THEN [fault |-> TRUE, nodes |-> nodes]
    ELSE parentLoop(SetSelection(nodes, iCounter, r.acc), iCounter + 1, name, w)

\* whether the build has at most one flow-stage measure
singleStage(this, measureDataLen) == measureDataLen = 1 \/ this.measureDataLengthCount <= 1

catLen1(this, catData, nodes, catLen, measureDataLen) ==
    IF singleStage(this, measureDataLen)
    THEN parentLoop(nodes, 1, catData[catLen - 1].source.displayName,
                    [same |-> TRUE, program |-> catData[catLen].source.displayName,
                     all |-> TRUE, take |-> catData[catLen].source.displayName,
                     fixed |-> FALSE, item |-> SelUndef])
    ELSE parentLoop(nodes, 1, catData[catLen - 1].source.displayName,
                    [same |-> FALSE, program |-> catData[catLen - 1].source.displayName,
                     all |-> FALSE, take |-> catData[catLen].source.displayName,
                     fixed |-> FALSE, item |-> SelUndef])

catLen2(catData, nodes, catLen) ==
    parentLoop(nodes, 1, catData[catLen - 2].source.displayName,
               [same |-> FALSE, program |-> catData[catLen - 2].source.displayName,
                all |-> FALSE, take |-> catData[catLen - 1].source.displayName,
                fixed |-> FALSE, item |-> SelUndef])

catLen3(catData, nodes, catLen) ==
    parentLoop(nodes, 1, catData[catLen - 3].source.displayName,
               [same |-> FALSE, program |-> catData[catLen - 3].source.displayName,
                all |-> FALSE, take |-> catData[catLen - 2].source.displayName,
                fixed |-> FALSE, item |-> SelUndef])

\* the step of addSelection that fills the deepest category nodes
leafSelection(this, catData, nodes, selection) ==
    IF singleStage(this, Len(this.dataViews.categorical.values))
    THEN leafLoop(nodes, 1, 0, catData[Len(catData)].source.displayName, selection)
    ELSE leafStageLoop(nodes, 1, 0, catData[Len(catData)].source.displayName, selection)

\* if (catLen > 1) data = this.catLen1(...), after the step that returned s
ifCatLen1(this, catData, s) ==
    IF s.fault \/ ~(Len(catData) > 1) THEN s
    ELSE catLen1(this, catData, s.nodes, Len(catData),
                 Len(this.dataViews.categorical.values))

\* if (catLen > 2) data = this.catLen2(...)
ifCatLen2(catData, s) ==
    IF s.fault \/ ~(Len(catData) > 2) THEN s ELSE catLen2(catData, s.nodes, Len(catData))

\* if (catLen > 3) data = this.catLen3(...)
ifCatLen3(catData, s) ==
    IF s.fault \/ ~(Len(catData) > 3) THEN s ELSE catLen3(catData, s.nodes, Len(catData))

\* addSelection: [fault, nodes]
addSelection(this, catData, nodes, selection) ==
    ifCatLen3(catData,
              ifCatLen2(catData,
                        ifCatLen1(this, catData,
                                  leafSelection(this, catData, nodes, selection))))

----------------------------------------------------------------------------
(* converter *)

\* const maxMeasure: the id before the first measure-stage node's
maxMeasure == 10000000

\* host.colorPalette.getColor(name).value: one color per name
getColor(name) == <<"color of">> \o name

\* textMeasurementService.getTailoredTextOrDefault(properties, 140) of a text
\* that fits in the width
getTailoredTextOrDefault(text) == text

\* value.toString() of a measure value that is neither null nor undefined
measureToString(m) == IF m.k = "num" THEN Str(ToString(m.v)) ELSE Str("text")

\* getCategoricalObjectValue(categories, index, 'colorSelector', 'fill', defaultColor)
\* .solid.color: the fill stored in categories.objects[index], else the default
getCategoricalObjectValue(categories, index, defaultColor) ==
    IF At(categories.objects, index) = UndefValue THEN defaultColor
    ELSE At(categories.objects, index)

RECURSIVE selectionLoop(_, _, _)
\* selection: one selection id per row, built with withCategory(categoryValues, jCounter)
selectionLoop(selection, jCounter, len) ==
    IF jCounter >= len THEN selection
    ELSE selectionLoop(Append(selection, SelObj(jCounter)), jCounter + 1, len)

RECURSIVE legendLoop(_, _, _)
\* the loop that fills this.legendDataPoints: [fault, legendDataPoints]
legendLoop(categories, legendDataPoints, iIterator) ==
    IF iIterator >= Len(categories.values)
    THEN [fault |-> FALSE, legendDataPoints |-> legendDataPoints]
    ELSE IF ThrowsToString(categories.values[iIterator + 1])
    THEN [fault |-> TRUE, legendDataPoints |-> legendDataPoints]
    ELSE legendLoop(categories,
                    Append(legendDataPoints,
                           [category |-> categories.values[iIterator + 1],
                            value |-> iIterator,
                            color |-> getCategoricalObjectValue(categories, iIterator,
                                          getColor(categories.values[iIterator + 1])),
                            selectionId |-> SelObj(iIterator)]),
                    iIterator + 1)

\* this.rootCount after the loop over this.measureData: the measures in the role "root"
rootCountOf(measureData) == Cardinality({i \in 1..Len(measureData) : measureData[i].source.roles.root})

\* the fields converter assigns before it builds anything
resetFields(this, dataView) ==
    [this EXCEPT
        !.totalValues = Len(dataView.categorical.values[1].values),
        !.selectionArrayIndex = 0,
        !.measureDataLengthCount = 0,
        !.rootCount = 0,
        !.catLength = Len(DistinctValues(dataView.categorical.categories[1].values)),
        !.idGen = 1,
        !.measureIdGen = maxMeasure,
        !.measureData = dataView.categorical.values]

\* a guard without the tests of the lengths
hasDataUnguarded(dataView) ==
    dataView.categorical.hasCategories /\ dataView.categorical.hasValues

\* the guard of converter
hasData(dataView) ==
    /\ dataView.categorical.hasCategories
    /\ Len(dataView.categorical.categories) > 0
    /\ dataView.categorical.hasValues
    /\ Len(dataView.categorical.values) > 0

\* the root's name: [fault, name]
rootName(this, rootSettings) ==
    LET last == this.dataViews.categorical.values[Len(this.measureData)].values
        first == AtM(last, 0)
        final == AtM(last, Len(last) - 1)
    IN  IF this.rootCount = 1
        THEN IF rootSettings.rootOption = Str("First")
             THEN IF ThrowsToStringM(first) THEN [fault |-> TRUE, name |-> NullValue]
                  ELSE [fault |-> FALSE, name |-> measureToString(first)]
             ELSE IF rootSettings.rootOption = Str("Last")
             THEN IF ThrowsToStringM(final) THEN [fault |-> TRUE, name |-> NullValue]
                  ELSE [fault |-> FALSE, name |-> measureToString(final)]
             ELSE [fault |-> FALSE, name |-> NullValue]
        ELSE [fault |-> FALSE, name |-> getTailoredTextOrDefault(rootSettings.text)]

\* the root node and its self-loop
rootData(rootSettings, rootSum, selection) ==
    [nodes |-> <<[id |-> NumToString(0),
                  program |-> getTailoredTextOrDefault(rootSettings.text),
                  name |-> NullValue,
                  group |-> NumToString(0),
                  numberOfLeads |-> rootSum,
                  percentage |-> Num(1),
                  description |-> EmptyStr,
                  color |-> rootSettings.color,
                  selectionId |-> SelArr(selection)]>>,
     links |-> <<[source |-> NumToString(0), target |-> NumToString(0),
                  value |-> rootSum]>>]

\* const len = Math.max(categoryValues.values.length, dataValue.values.length)
selectionLen(dataView) ==
    IF Len(dataView.categorical.categories[1].values)
           >= Len(dataView.categorical.values[1].values)
    THEN Len(dataView.categorical.categories[1].values)
    ELSE Len(dataView.categorical.values[1].values)

\* the end of converter: addSelection has returned sel
converterSelected(built, sel) ==
    IF sel.fault THEN Throw(built.this, built.data)
    ELSE Ret(built.this, [built.data EXCEPT !.nodes = sel.nodes])

\* calNodesNLinks has returned built
converterBuilt(built, catData, selection) ==
    IF built.fault THEN built
    ELSE converterSelected(built,
                           addSelection(built.this, catData, built.data.nodes, selection))

\* the root's name is set and the graph is built under the root
converterNamed(this, data, dataView, name, selection) ==
    IF name.fault THEN Throw(this, data)
    ELSE converterBuilt(calNodesNLinks(this, [data EXCEPT !.nodes[1].name = name.name],
                                       dataView.categorical.categories, EmptyStr, 0, 0,
                                       data.nodes[1].numberOfLeads, selection),
                        dataView.categorical.categories, selection)

\* the measures are counted by role
countRoles(this) ==
    [this EXCEPT !.rootCount = rootCountOf(this.measureData),
                 !.measureDataLengthCount =
                     Len(this.measureData) - rootCountOf(this.measureData)]

\* this.legendDataPoints is filled
converterLegend(this, data, dataView, rootSettings, legend, selection) ==
    IF legend.fault
    THEN Throw([this EXCEPT !.legendDataPoints = legend.legendDataPoints,
                            !.legendDefined = TRUE], data)
    ELSE converterNamed(countRoles([this EXCEPT !.legendDataPoints = legend.legendDataPoints,
                                                !.legendDefined = TRUE]),
                        data, dataView,
                        rootName(countRoles(this), rootSettings),
                        selection)

\* rootSum is computed, the root node and link are pushed
converterRoot(this, dataView, rootSettings, rootAgg) ==
    IF rootAgg.fault THEN Throw(this, getDefaultData)
    ELSE converterLegend(this,
                         rootData(rootSettings, rootAgg.v,
                                  selectionLoop(<<>>, 0, selectionLen(dataView))),
                         dataView, rootSettings,
                         legendLoop([dataView.categorical.categories[1] EXCEPT
                                        !.values = DistinctValues(@)], <<>>, 0),
                         selectionLoop(<<>>, 0, selectionLen(dataView)))

\* reading values[0].values or categories[0].values throws a TypeError when the
\* column is not there
columnMissing(dataView) ==
    Len(dataView.categorical.values) = 0 \/ Len(dataView.categorical.categories) = 0

\* converter: [this, data, fault]
converter(this, dataView, rootSettings) ==
    IF ~hasData(dataView) THEN Ret(this, getDefaultData)
    ELSE IF columnMissing(dataView) THEN Throw(this, getDefaultData)
    ELSE converterRoot(resetFields(this, dataView), dataView, rootSettings,
                       calAggregate(resetFields(this, dataView), NoneStr,
                                    Len(dataView.categorical.categories[1].values)))

----------------------------------------------------------------------------
(* update *)

\* getDefaultRootSettings
getDefaultRootSettings ==
    [showDataLabel |-> TRUE, text |-> Str("Root"), rootOption |-> Str("First"),
     color |-> Str("#000000")]

\* getRootSettings: the settings stored with the data view
getRootSettings(dataView) == dataView.rootSettings

\* a field that holds undefined: no data view, no graph
UndefinedDataView ==
    [undefined |-> TRUE,
     categorical |-> [hasCategories |-> FALSE, categories |-> <<>>,
                      hasValues |-> FALSE, values |-> <<>>],
     rootSettings |-> getDefaultRootSettings]
UndefinedData == [undefined |-> TRUE, nodes |-> <<>>, links |-> <<>>]

\* the Visual after its constructor
Constructed ==
    [dataViews |-> UndefinedDataView,
     data |-> UndefinedData,
     legendDataPoints |-> <<>>,
     legendDefined |-> FALSE,
     minXView |-> Div(Num(-1000), Frac(23, 10)),
     minYView |-> Div(Num(-500), Num(2)),
     width |-> Num(1000),
     height |-> Num(500),
     totalValues |-> 0,
     catLength |-> 0,
     idGen |-> 0,
     measureIdGen |-> 0,
     measureData |-> <<>>,
     selectionArrayIndex |-> 0,
     measureDataLengthCount |-> 0,
     rootCount |-> 0]

\* a helper that never throws
updateHelperFunctionNeverThrows(this, data) == FALSE

\* whether updateHelperFunction throws: displayLabelUnit reads
\* this.dataViews.categorical.values[0].values, and the link force looks every
\* link's source and target up among the node ids
updateHelperFunctionThrows(this, data) ==
    \/ ~this.dataViews.categorical.hasValues
    \/ Len(this.dataViews.categorical.values) = 0
    \/ \E l \in Range(data.links) :
           \/ \A n \in Range(data.nodes) : n.id.n # l.source.n
           \/ \A n \in Range(data.nodes) : n.id.n # l.target.n

\* what a call of converter returned, and the legend it left
Returned(c) ==
    [fault |-> c.fault,
     data |-> IF c.fault THEN getDefaultData ELSE c.data,
     legendDataPoints |-> c.this.legendDataPoints]

NotReturned == [fault |-> FALSE, data |-> UndefinedData, legendDataPoints |-> <<>>]

\* the #errorMessage element is hidden
Hidden == Str("#hidden")

\* whether some column holds a null value
hasNull(columns, null) ==
    \E iCounter \in 1..Len(columns) : \E jCounter \in 1..Len(columns[iCounter].values) :
        columns[iCounter].values[jCounter] = null

\* the message update leaves in #errorMessage: the last one it sets
errorMessageOf(categorical) ==
    IF ~categorical.hasValues THEN Str("Please select Measure Data.")
    ELSE IF hasNull(categorical.values, MNull) THEN Str("Measure value is null.")
    ELSE IF ~categorical.hasCategories THEN Str("Please select Category Data.")
    ELSE IF hasNull(categorical.categories, NullValue) THEN Str("Category value is null.")
    ELSE Hidden

MaxHeat == 1        \* ticks a simulation makes before it has cooled down

(* A force simulation: whether d3.forceSimulation() was called, whether     *)
(* ticked is its tick listener (then it also holds the nodes), whether the  *)
(* link force holds the links, its alphaTarget in tenths, how many ticks    *)
(* its timer still makes while its alphaTarget is 0, and whether a drag     *)
(* gesture that began on one of its nodes is still going on.                *)
NoSimulation ==
    [created |-> FALSE, tick |-> FALSE, links |-> FALSE, alphaTarget |-> 0, heat |-> 0,
     held |-> FALSE]

\* d3Main.forceSimulation(): the timer runs from the start
forceSimulation == [NoSimulation EXCEPT !.created = TRUE, !.heat = MaxHeat]

\* drawing the legend throws when this.legendDataPoints is still undefined
\* (legendSettings.show is true by default)
legendThrows(this) == ~this.legendDefined

\* displayLabelUnit reads this.dataViews.categorical.values[0].values
displayLabelUnitThrows(this) ==
    ~this.dataViews.categorical.hasValues \/ Len(this.dataViews.categorical.values) = 0

\* forceLink().links(data.links) throws when a link's source or target is the id
\* of no node
linksThrow(data) ==
    \E l \in Range(data.links) :
        \/ \A n \in Range(data.nodes) : n.id.n # l.source.n
        \/ \A n \in Range(data.nodes) : n.id.n # l.target.n

\* the simulation update has created when it returns or throws
simulationOf(this, c) ==
    IF c.fault \/ legendThrows(this) THEN NoSimulation
    ELSE IF displayLabelUnitThrows(this) THEN forceSimulation
    ELSE [forceSimulation EXCEPT !.tick = TRUE, !.links = ~linksThrow(c.data)]

\* whether update got as far as visualPrint binding the pan and zoom handlers
bindsPanZoom(this, c) ==
    ~c.fault /\ ~legendThrows(this) /\ ~updateHelperFunctionThrows(this, c.data)

MaxPlacements == 1  \* the placements a tick chooses from

\* a node no simulation has placed: x, y, fx and fy are undefined, and its
\* label has not been placed
Unplaced ==
    [x |-> UndefNum, y |-> UndefNum, fx |-> UndefNum, fy |-> UndefNum, label |-> "none"]

\* where placement p puts node i; placement 0 is the one simulation.nodes() makes
Place(p, i) ==
    [x |-> Num(100 * p + 10 * i - 40 * (i \div 3)), y |-> Num(100 * p - 10 * i)]

\* a node after a tick that would put it at position to: fx and fy hold it
moved(node, to) ==
    [node EXCEPT !.x = IF node.fx.t = "fin" THEN node.fx ELSE to.x,
                 !.y = IF node.fy.t = "fin" THEN node.fy ELSE to.y]

\* the nodes bound to the circles update has drawn, as simulation.nodes() left them
layoutOf(this, c) ==
    IF c.fault \/ legendThrows(this) THEN <<>>
    ELSE [i \in 1..Len(c.data.nodes) |->
             IF displayLabelUnitThrows(this) THEN Unplaced
             ELSE moved(Unplaced, Place(0, i))]

\* the simulations that still run after another update: their timers go on
\* until they have cooled down, no update stops them
supersededBy(old, gesture, earlier) ==
    IF old.created /\ (old.heat > 0 \/ gesture # 0)
    THEN earlier \cup {[old EXCEPT !.held = gesture # 0]}
    ELSE earlier

\* x < y of two numbers that are not NaN
Less(x, y) ==
    IF x.t = "ninf" THEN y.t # "ninf"
    ELSE IF x.t = "pinf" \/ y.t = "ninf" THEN FALSE
    ELSE IF y.t = "pinf" THEN TRUE
    ELSE x.n * y.d < y.n * x.d

\* the number a value is compared and scaled as: null and '0' as 0
ToNumber(x) == IF x.t \in {"null", "string"} THEN Num(0) ELSE IF x.t = "undefined" THEN NaN ELSE x

\* what the accessor of d3Main.max returns for a node: 1 for a node named 'Root'
sizeOf(d) == IF d.name = Str("Root") THEN Num(1) ELSE d.numberOfLeads

RECURSIVE maxLoop(_, _, _)
\* d3Main.max: null, undefined and NaN are passed over
maxLoop(nodes, i, best) ==
    IF i > Len(nodes) THEN best
    ELSE IF sizeOf(nodes[i]).t \in {"null", "undefined", "nan"}
    THEN maxLoop(nodes, i + 1, best)
    ELSE IF best.t = "undefined" \/ Less(ToNumber(best), ToNumber(sizeOf(nodes[i])))
    THEN maxLoop(nodes, i + 1, sizeOf(nodes[i]))
    ELSE maxLoop(nodes, i + 1, best)

\* const max = d3Main.max(data.nodes, ...): undefined when no node has a value
maxOf(data) == maxLoop(data.nodes, 1, UndefNum)

\* linearScale(x), the scale with the domain [0, max] and the range [10, 30];
\* what a scale with the domain [0, 0] returns depends on the version of d3:
\* it is the value flat
linearScale(max, x, flat) ==
    IF ToNumber(max).t = "nan" \/ ToNumber(x).t = "nan" THEN NaN
    ELSE IF ToNumber(max) = Num(0) THEN flat
    ELSE IF Div(ToNumber(x), ToNumber(max)).t # "fin" THEN Div(ToNumber(x), ToNumber(max))
    ELSE Frac(10 * Div(ToNumber(x), ToNumber(max)).d + 20 * Div(ToNumber(x), ToNumber(max)).n,
              Div(ToNumber(x), ToNumber(max)).d)

\* the values a scale with the domain [0, 0] may return
FlatValues == {Num(10), Num(20)}

\* the attribute r of the circle of node d
radius(d, max, flat) ==
    IF d.name = Str("Root")
    THEN IF linearScale(max, max, flat).t = "nan" THEN Num(0) ELSE linearScale(max, max, flat)
    ELSE IF linearScale(max, d.numberOfLeads, flat).t = "nan" THEN Num(0)
    ELSE IF Less(ToNumber(d.numberOfLeads), Num(0)) THEN Num(0)
    ELSE linearScale(max, d.numberOfLeads, flat)

\* update(options), when its call of converter returned c
UpdateWith(dataView, c) ==
    LET this1 == IF c.fault THEN c.this ELSE [c.this EXCEPT !.data = c.data]
        failed == c.fault \/ legendThrows(this1) \/ updateHelperFunctionThrows(this1, c.data)
    IN  /\ visual' = this1
        /\ simulation' = simulationOf(this1, c)
        /\ superseded' = supersededBy(simulation, dragging, superseded)
        /\ layout' = layoutOf(this1, c)
        /\ panZoomBound' = (panZoomBound \/ bindsPanZoom(this1, c))
        /\ dragging' = 0
        /\ lastTick' = "none"
        /\ selected' = 0
        /\ UNCHANGED <<managerIds, nInputs>>
        /\ returned' = Returned(c)
        /\ events' = <<"renderingStarted",
                       IF failed THEN "renderingFailed" ELSE "renderingFinished">>
        /\ errorMessage' = errorMessageOf(dataView.categorical)
        /\ firstBuild' = IF firstBuild.set THEN firstBuild
                         ELSE [set |-> TRUE, dataView |-> dataView, returned |-> Returned(c)]
        /\ UNCHANGED <<options, nChanges>>

\* update(options)
Update ==
    UpdateWith(options,
               converter([visual EXCEPT !.dataViews = options], options,
                         getRootSettings(options)))

----------------------------------------------------------------------------
(* The data views the host passes *)

MaxCats == 2        \* category columns of the general tables
MaxRows == 3        \* rows of the general tables
MaxDepth == 5       \* category columns of the deep tables
MaxMeasures == 3    \* measure columns of the tables with several measures
MaxDataChanges == 2 \* how often the host replaces the data view

A == Str("a")
B == Str("b")

CatName(i) == <<"Category", ToString(i)>>
MeasureName(j) == <<"Measure", ToString(j)>>

CatColumn(i, values, objects) ==
    [source |-> [displayName |-> CatName(i)], values |-> values, objects |-> objects]

MeasureColumn(j, root, values) ==
    [source |-> [displayName |-> MeasureName(j), roles |-> [root |-> root]],
     values |-> values]

DataView(categories, values, rootSettings) ==
    [categorical |-> [hasCategories |-> TRUE, categories |-> categories,
                      hasValues |-> TRUE, values |-> values],
     rootSettings |-> rootSettings]

\* the table with the category cells cells[column][row] and the given measures
Table(cells, measures) ==
    DataView([i \in 1..Len(cells) |-> CatColumn(i, cells[i], <<>>)], measures,
             getDefaultRootSettings)

\* row i of the primary measure of the general tables: the sum over a set of
\* rows tells the set
Weights(rows) == [i \in 1..rows |-> MNum(2 ^ (i - 1))]

PrimaryMeasure(rows) == <<MeasureColumn(1, FALSE, Weights(rows))>>

Cells(cats, rows, values) == [1..cats -> [1..rows -> values]]

\* every table of up to MaxCats category columns and MaxRows rows over two values
GeneralViews ==
    UNION {{Table(cells, PrimaryMeasure(rows)) : cells \in Cells(cats, rows, {A, B})} :
               cats \in 1..MaxCats, rows \in 1..MaxRows}

\* a measure column of numbers
NumberColumn(j, root, numbers) ==
    MeasureColumn(j, root, [i \in 1..Len(numbers) |-> MNum(numbers[i])])

\* tables whose measure values are negative, zero or positive
ZeroViews ==
    UNION {{Table(cells, <<NumberColumn(1, FALSE, numbers)>>) :
               cells \in [1..cats -> {<<A, A>>, <<A, B>>}],
               numbers \in [1..2 -> {-1, 0, 1}]} : cats \in 1..2}

\* category values that are the text 'none', the empty text, or hold '***'
TextValues == {A, B, NoneStr, EmptyStr, <<"a", SepAtom, "b">>}

TextViews ==
    {Table(<<first>>, PrimaryMeasure(2)) : first \in [1..2 -> TextValues]}
    \cup {Table(<<first, second>>, PrimaryMeasure(2)) :
              first \in [1..2 -> TextValues], second \in {<<A, B>>, <<B, B>>}}

\* values[1], values[2], ...: measure j has stage[j] in row i, times i
StageColumns(roles, rows, stage) ==
    [j \in 1..Len(roles) |->
        NumberColumn(j, roles[j], [i \in 1..rows |-> stage[j] * i])]

\* the stage values of the tables with several measures: falling, or all zero
Falling == [j \in 1..(MaxMeasures + 1) |-> 2 ^ (MaxMeasures + 1 - j)]
AllZero == [j \in 1..(MaxMeasures + 1) |-> 0]

\* tables of three and more category columns and two rows, the first row all 'a',
\* with one measure or with two flow-stage measures
DeepViews ==
    UNION {{Table([c \in 1..cats |-> <<A, second[c]>>], measures) :
               second \in [1..cats -> {A, B}],
               measures \in {PrimaryMeasure(2),
                             StageColumns(<<FALSE, FALSE>>, 2, Falling)}} :
               cats \in 3..MaxDepth}

\* tables of two and more measures, in either role
MeasureCells ==
    {<<<<A>>>>, <<<<A, A>>>>, <<<<A, B>>>>, <<<<A, A>>, <<A, B>>>>,
     <<<<A, B>>, <<A, A>>>>, <<<<A, A>>, <<A, A>>>>}

MeasureViews ==
    UNION {{Table(cells, StageColumns(roles, Len(cells[1]), stage)) :
               cells \in MeasureCells,
               roles \in [1..measures -> BOOLEAN],
               stage \in {Falling, AllZero}} : measures \in 2..MaxMeasures}

\* a table with one cell replaced: a category value, or a measure value
WithCategory(dataView, column, row, value) ==
    [dataView EXCEPT !.categorical.categories[column].values[row] = value]
WithMeasure(dataView, column, row, value) ==
    [dataView EXCEPT !.categorical.values[column].values[row] = value]

NullBases ==
    {Table(<<<<A, B>>, <<A, A>>>>, measures) :
        measures \in {PrimaryMeasure(2), StageColumns(<<FALSE, FALSE>>, 2, Falling)}}

\* tables with a null category value, a null measure value or a measure value
\* that is no number
NullViews ==
    {WithCategory(base, column, row, NullValue) :
        base \in NullBases, column \in 1..2, row \in 1..2}
    \cup UNION {{WithMeasure(base, column, row, value) :
                    column \in 1..Len(base.categorical.values),
                    row \in 1..2, value \in {MNull, MStr}} : base \in NullBases}

\* tables whose columns differ in length
LengthViews ==
    UNION {{Table([c \in 1..cats |-> SubSeq(<<A, B>>, 1, lengths[c])],
                  PrimaryMeasure(measured)) :
               lengths \in [1..cats -> 0..2], measured \in 0..2} : cats \in 1..2}

\* data views in which the categories or the measures are missing or empty
EmptyViews ==
    {[categorical |-> [hasCategories |-> categories # "undefined",
                       categories |-> IF categories = "present"
                                      THEN <<CatColumn(1, <<A, B>>, <<>>)>> ELSE <<>>,
                       hasValues |-> values # "undefined",
                       values |-> IF values = "present" THEN PrimaryMeasure(2) ELSE <<>>],
      rootSettings |-> getDefaultRootSettings] :
        categories \in {"undefined", "empty", "present"},
        values \in {"undefined", "empty", "present"}}

\* root settings, with and without a measure in the role "root"
RootViews ==
    UNION {{DataView(<<CatColumn(1, <<A, B>>, <<>>)>>, StageColumns(roles, 2, Falling),
                     [getDefaultRootSettings EXCEPT !.rootOption = rootOption,
                                                    !.text = text]) :
               roles \in [1..measures -> BOOLEAN],
               rootOption \in {Str("First"), Str("Last"), Str("Other")},
               text \in {Str("Root"), Str("Journey")}} : measures \in 1..2}

\* tables with a color stored for some of the categories
OverrideViews ==
    {DataView(<<CatColumn(1, values, objects)>>, PrimaryMeasure(Len(values)),
              getDefaultRootSettings) :
        values \in {<<A, B>>, <<A, A>>}, objects \in [1..2 -> {UndefValue, Str("red")}]}

\* tables with negative, zero and positive measure values under a root text
\* that is the default or another one
SignedRootViews ==
    {DataView(<<CatColumn(1, <<A, B>>, <<>>)>>, <<NumberColumn(1, FALSE, numbers)>>,
              [getDefaultRootSettings EXCEPT !.text = text]) :
        numbers \in [1..2 -> {-1, 0, 2}], text \in {Str("Root"), Str("Journey")}}

DataViews ==
    GeneralViews \cup ZeroViews \cup TextViews \cup DeepViews \cup MeasureViews
        \cup NullViews \cup LengthViews \cup EmptyViews \cup RootViews \cup OverrideViews
        \cup SignedRootViews

----------------------------------------------------------------------------
(* Specifications *)

NotBuilt == [set |-> FALSE, dataView |-> UndefinedDataView, returned |-> NotReturned]

\* the host calls update over and over with one data view, any of DataViews
Init ==
    /\ visual = Constructed
    /\ events = <<>>
    /\ returned = NotReturned
    /\ options \in DataViews
    /\ nChanges = 0
    /\ firstBuild = NotBuilt
    /\ errorMessage = Hidden
    /\ simulation = NoSimulation
    /\ superseded = {}
    /\ layout = <<>>
    /\ dragging = 0
    /\ lastTick = "none"
    /\ selected = 0
    /\ managerIds = <<>>
    /\ panZoomBound = FALSE
    /\ nInputs = 0

Next == Update

Spec == Init /\ [][Next]_vars

\* the data views the host changes between
RebuildViews ==
    EmptyViews
    \cup {Table(<<<<A, B>>>>, PrimaryMeasure(2)),
          Table(<<<<A, A, B>>, <<A, B, B>>>>, PrimaryMeasure(3)),
          Table(<<<<A, B>>, <<B, A>>>>, StageColumns(<<FALSE, FALSE>>, 2, Falling))}

\* the host replaces the data view it passes to update
DataChange ==
    /\ nChanges < MaxDataChanges
    /\ options' \in RebuildViews \ {options}
    /\ nChanges' = nChanges + 1
    /\ UNCHANGED <<visual, events, returned, firstBuild, errorMessage, simulation,
                   superseded, layout, dragging, lastTick, selected, managerIds,
                   panZoomBound, nInputs>>

InitRebuild ==
    /\ visual = Constructed
    /\ events = <<>>
    /\ returned = NotReturned
    /\ options \in RebuildViews
    /\ nChanges = 0
    /\ firstBuild = NotBuilt
    /\ errorMessage = Hidden
    /\ simulation = NoSimulation
    /\ superseded = {}
    /\ layout = <<>>
    /\ dragging = 0
    /\ lastTick = "none"
    /\ selected = 0
    /\ managerIds = <<>>
    /\ panZoomBound = FALSE
    /\ nInputs = 0

NextRebuild == Update \/ DataChange

\* the host calls update with data views that change from call to call
SpecRebuild == InitRebuild /\ [][NextRebuild]_vars

----------------------------------------------------------------------------
(* The timers of the simulations and the pointer events of the user *)

MaxInputs == 2      \* pointer events the user makes

\* one step of a simulation's timer: it cools down unless its alphaTarget keeps
\* it warm
cool(sim) == [sim EXCEPT !.heat = IF sim.alphaTarget = 0 THEN sim.heat - 1 ELSE sim.heat]

\* where ticked puts the label of a node that is not the root, given rootx
\* and rooty as the root left them
labelSide(d, root) ==
    IF Less(d.x, root.x)
    THEN IF Less(Add(root.x, Frac(-d.x.n, d.x.d)), Num(50))
         THEN IF Less(root.y, d.y) THEN "below" ELSE "above"
         ELSE "left"
    ELSE "right"

\* ticked, the tick listener: the simulation has moved every node it holds
\* that fx and fy do not hold, and the labels are placed
ticked(nodes, p) ==
    [i \in 1..Len(nodes) |->
        [moved(nodes[i], Place(p, i)) EXCEPT
            !.label = IF i = 1 THEN "root"
                      ELSE labelSide(moved(nodes[i], Place(p, i)), moved(nodes[1], Place(p, 1)))]]

\* the timer of the simulation of the last update fires
Tick ==
    /\ simulation.created
    /\ simulation.heat > 0
    /\ simulation' = cool(simulation)
    /\ \E p \in 1..MaxPlacements :
           layout' = IF simulation.tick THEN ticked(layout, p) ELSE layout
    /\ lastTick' = IF simulation.tick THEN "current" ELSE lastTick
    /\ UNCHANGED <<visual, events, returned, options, nChanges, firstBuild, errorMessage,
                   superseded, dragging, selected, managerIds, panZoomBound, nInputs>>

\* the timer of the simulation of an earlier update fires: its nodes are the
\* nodes of the graph of that update
TickSuperseded ==
    \E sim \in superseded :
        /\ sim.heat > 0
        /\ superseded' = (superseded \ {sim})
                              \cup (IF cool(sim).heat > 0 THEN {cool(sim)} ELSE {})
        /\ lastTick' = IF sim.tick THEN "superseded" ELSE lastTick
        /\ UNCHANGED <<visual, events, returned, options, nChanges, firstBuild,
                       errorMessage, simulation, layout, dragging, selected, managerIds,
                       panZoomBound, nInputs>>

\* simulation.alphaTarget(target).restart()
restart(sim, target) == [sim EXCEPT !.alphaTarget = target, !.heat = MaxHeat]

\* dragstarted(d) misplaced: it pins the node at the origin
dragstartedAtOrigin(d) == [d EXCEPT !.fx = Num(0), !.fy = Num(0)]

\* dragstarted(d): d.fx = d.x; d.fy = d.y
dragstarted(d) == [d EXCEPT !.fx = d.x, !.fy = d.y]

\* dragged(d): d.fx = event.x; d.fy = event.y
dragged(d, event) == [d EXCEPT !.fx = event.x, !.fy = event.y]

\* dragended(d): d.fx = null; d.fy = null
dragended(d) == [d EXCEPT !.fx = NullNum, !.fy = NullNum]

\* where the pointer is during a drag gesture
Pointers == {[x |-> Num(105), y |-> Num(95)], [x |-> Num(40), y |-> Num(45)]}

\* the user presses the pointer on the circle of node i (no other gesture is
\* active, so event.active is 0)
DragStarted ==
    /\ nInputs < MaxInputs
    /\ dragging = 0
    /\ \E i \in 1..Len(layout) :
           /\ layout' = [layout EXCEPT ![i] = dragstarted(layout[i])]
           /\ dragging' = i
    /\ simulation' = restart(simulation, 3)
    /\ nInputs' = nInputs + 1
    /\ UNCHANGED <<visual, events, returned, options, nChanges, firstBuild, errorMessage,
                   superseded, lastTick, selected, managerIds, panZoomBound>>

\* the user moves the pointer during the gesture
Dragged ==
    /\ nInputs < MaxInputs
    /\ dragging # 0
    /\ \E event \in Pointers :
           layout' = [layout EXCEPT ![dragging] = dragged(layout[dragging], event)]
    /\ nInputs' = nInputs + 1
    /\ UNCHANGED <<visual, events, returned, options, nChanges, firstBuild, errorMessage,
                   simulation, superseded, dragging, lastTick, selected, managerIds,
                   panZoomBound>>

\* the user releases the pointer
DragEnded ==
    /\ dragging # 0
    /\ layout' = [layout EXCEPT ![dragging] = dragended(layout[dragging])]
    /\ simulation' = [simulation EXCEPT !.alphaTarget = 5]
    /\ dragging' = 0
    /\ UNCHANGED <<visual, events, returned, options, nChanges, firstBuild, errorMessage,
                   superseded, lastTick, selected, managerIds, panZoomBound, nInputs>>

\* the user releases the pointer of a gesture that began before the last
\* update: dragended acts on the simulation and the node of that update
DragEndedSuperseded ==
    \E sim \in superseded :
        /\ sim.held
        /\ superseded' = (superseded \ {sim}) \cup {[sim EXCEPT !.alphaTarget = 5, !.held = FALSE]}
        /\ UNCHANGED <<visual, events, returned, options, nChanges, firstBuild,
                       errorMessage, simulation, layout, dragging, lastTick, selected,
                       managerIds, panZoomBound, nInputs>>

\* how far the pointer moves in one drag event on the background
PanSteps == {[dx |-> 30, dy |-> -10]}

\* svgDragHandler misplaced: it also drops the graph
svgDragHandlerDropping(this, event) ==
    [this EXCEPT !.minXView = Add(@, Num(-1 * event.dx)),
                 !.minYView = Add(@, Num(-1 * event.dy)),
                 !.data = getDefaultData]

\* svgDragHandler()
svgDragHandler(this, event) ==
    [this EXCEPT !.minXView = Add(@, Num(-1 * event.dx)),
                 !.minYView = Add(@, Num(-1 * event.dy))]

\* the user drags the background
Pan ==
    /\ nInputs < MaxInputs
    /\ panZoomBound
    /\ dragging = 0
    /\ \E event \in PanSteps : visual' = svgDragHandler(visual, event)
    /\ nInputs' = nInputs + 1
    /\ UNCHANGED <<events, returned, options, nChanges, firstBuild, errorMessage,
                   simulation, superseded, layout, dragging, lastTick, selected,
                   managerIds, panZoomBound>>

\* x > 0 of a number
Positive(x) == x.t = "pinf" \/ (x.t = "fin" /\ x.n > 0)

\* the wheel deltas of the wheel events
WheelDeltas == {-100, 300}

\* svgMouseWheelHandler()
svgMouseWheelHandler(this, wheelDelta) ==
    IF /\ Positive(Add(this.width, Num(wheelDelta * (-2))))
       /\ Positive(Add(this.height, Num(wheelDelta * (-2))))
    THEN [this EXCEPT !.minXView = Add(@, Num(wheelDelta)),
                      !.minYView = Add(@, Num(wheelDelta)),
                      !.width = Add(@, Num(wheelDelta * (-2))),
                      !.height = Add(@, Num(wheelDelta * (-2)))]
    ELSE this

\* the user turns the wheel over the svg
Zoom ==
    /\ nInputs < MaxInputs
    /\ panZoomBound
    /\ \E wheelDelta \in WheelDeltas : visual' = svgMouseWheelHandler(visual, wheelDelta)
    /\ nInputs' = nInputs + 1
    /\ UNCHANGED <<events, returned, options, nChanges, firstBuild, errorMessage,
                   simulation, superseded, layout, dragging, lastTick, selected,
                   managerIds, panZoomBound>>

\* x[0] of a selection id
At0(x) == IF x.t = "array" THEN AtS(x.a, 0) ELSE SelUndef

\* x.selectionId of a selection id: the row (1, 2, ...) of the id the host
\* built, 0 for undefined when x has no such field
selectionIdOf(x) == IF x.t = "object" THEN x.i + 1 ELSE 0

\* the if chain of assignValue on one element of the array
RECURSIVE assignElement(_, _)
assignElement(x, depth) ==
    IF depth = 5 THEN <<>>
    ELSE IF At0(x).t = "undefined" THEN <<selectionIdOf(x)>>
    ELSE assignElement(At0(x), depth + 1)

RECURSIVE assignLoop(_, _)
assignLoop(dataPointArray, iIndex) ==
    IF iIndex > Len(dataPointArray) THEN <<>>
    ELSE assignElement(dataPointArray[iIndex], 0) \o assignLoop(dataPointArray, iIndex + 1)

\* assignValue(dataPointArray, [], []): what it leaves in its last argument
assignValue(dataPointArray) ==
    IF dataPointArray.t = "object" THEN <<selectionIdOf(dataPointArray)>>
    ELSE assignLoop(dataPointArray.a, 1)

\* assignValue throws a TypeError when it reads length of undefined, or [0] of
\* an element that is undefined
assignValueThrows(dataPointArray) ==
    \/ dataPointArray.t = "undefined"
    \/ dataPointArray.t = "array" /\ \E x \in Range(dataPointArray.a) : x.t = "undefined"

\* the user clicks the circle of node i: the manager is cleared, and the ids
\* of the node are selected unless the circle was the selected one or the
\* node has no selection id, which throws
NodeClick ==
    /\ nInputs < MaxInputs
    /\ dragging = 0
    /\ \E i \in 1..Len(layout) :
           IF assignValueThrows(visual.data.nodes[i].selectionId)
           THEN managerIds' = <<>> /\ selected' = selected
           ELSE IF selected = i
           THEN managerIds' = <<>> /\ selected' = 0
           ELSE /\ managerIds' = assignValue(visual.data.nodes[i].selectionId)
                /\ selected' = i
    /\ nInputs' = nInputs + 1
    /\ UNCHANGED <<visual, events, returned, options, nChanges, firstBuild, errorMessage,
                   simulation, superseded, layout, dragging, lastTick, panZoomBound>>

\* the user clicks the background: the manager is cleared, the circle keeps
\* its class
BackgroundClick ==
    /\ nInputs < MaxInputs
    /\ dragging = 0
    /\ Len(layout) > 0
    /\ managerIds' = <<>>
    /\ nInputs' = nInputs + 1
    /\ UNCHANGED <<visual, events, returned, options, nChanges, firstBuild, errorMessage,
                   simulation, superseded, layout, dragging, lastTick, selected,
                   panZoomBound>>

\* the data views the host changes between while the user acts: a table the
\* visual draws, and a table with a null category value
InteractViews ==
    {Table(<<<<A, B>>>>, PrimaryMeasure(2)),
     WithCategory(Table(<<<<A, B>>>>, PrimaryMeasure(2)), 1, 2, NullValue)}

\* the host replaces the data view it passes to update
ViewChange ==
    /\ nChanges < MaxDataChanges
    /\ options' \in InteractViews \ {options}
    /\ nChanges' = nChanges + 1
    /\ UNCHANGED <<visual, events, returned, firstBuild, errorMessage, simulation,
                   superseded, layout, dragging, lastTick, selected, managerIds,
                   panZoomBound, nInputs>>

InitInteract ==
    /\ visual = Constructed
    /\ events = <<>>
    /\ returned = NotReturned
    /\ options \in InteractViews
    /\ nChanges = 0
    /\ firstBuild = NotBuilt
    /\ errorMessage = Hidden
    /\ simulation = NoSimulation
    /\ superseded = {}
    /\ layout = <<>>
    /\ dragging = 0
    /\ lastTick = "none"
    /\ selected = 0
    /\ managerIds = <<>>
    /\ panZoomBound = FALSE
    /\ nInputs = 0

NextInteract ==
    \/ Update
    \/ ViewChange
    \/ Tick
    \/ TickSuperseded
    \/ DragStarted
    \/ Dragged
    \/ DragEnded
    \/ DragEndedSuperseded
    \/ Pan
    \/ Zoom
    \/ NodeClick
    \/ BackgroundClick

\* the host updates the visual while its simulations run and the user acts
SpecInteract == InitInteract /\ [][NextInteract]_vars

----------------------------------------------------------------------------
(* What the properties speak about: the table of the last update, the graph *)
(* its call of converter returned, and the key of a node, read off the      *)
(* table and the links and not off the strings the build passes around.     *)

\* update has run
Built == events # <<>>

\* the data view of the last update, and what converter made of it
table == visual.dataViews
graph == returned.data

Categories(dataView) == dataView.categorical.categories
Measures(dataView) == dataView.categorical.values
RowsOf(dataView) == 1..Len(Categories(dataView)[1].values)

\* the data view has a category column and a measure column
HasColumns(dataView) ==
    /\ dataView.categorical.hasCategories /\ Categories(dataView) # <<>>
    /\ dataView.categorical.hasValues /\ Measures(dataView) # <<>>

\* all columns have the same number of rows
SameLengths(dataView) ==
    /\ \A c \in 1..Len(Categories(dataView)) :
           Len(Categories(dataView)[c].values) = Len(Categories(dataView)[1].values)
    /\ \A m \in 1..Len(Measures(dataView)) :
           Len(Measures(dataView)[m].values) = Len(Categories(dataView)[1].values)

\* a table: columns of one length, every category value a text, every measure
\* value a number
IsTable(dataView) ==
    /\ HasColumns(dataView)
    /\ SameLengths(dataView)
    /\ \A c \in 1..Len(Categories(dataView)) : \A r \in RowsOf(dataView) :
           Categories(dataView)[c].values[r] \notin {NullValue, UndefValue}
    /\ \A m \in 1..Len(Measures(dataView)) : \A r \in RowsOf(dataView) :
           Measures(dataView)[m].values[r].k = "num"

\* ids below maxMeasure are those of category nodes, ids above it those of
\* measure-stage nodes; the root has the id 0
IsCategoryNode(node) == node.id.n >= 1 /\ node.id.n <= maxMeasure
IsStageNode(node) == node.id.n > maxMeasure

\* the node the link into node i comes from
ParentOf(data, i) ==
    CHOOSE p \in 1..Len(data.nodes) : data.nodes[p].id.n = data.links[i].source.n

\* the category node a measure-stage node hangs under: the last one before it
OwnerOf(data, i) ==
    CHOOSE p \in 1..i :
        /\ ~IsStageNode(data.nodes[p])
        /\ \A q \in (p + 1)..i : IsStageNode(data.nodes[q])

RECURSIVE KeyOf(_, _)
\* the key of node i: the category values on the path from the root to it
KeyOf(data, i) ==
    IF i = 1 THEN <<>>
    ELSE IF IsStageNode(data.nodes[i]) THEN KeyOf(data, OwnerOf(data, i))
    ELSE KeyOf(data, ParentOf(data, i)) \o <<data.nodes[i].name>>

\* the rows whose category values equal the key at every level of the key
MatchingRows(dataView, key) ==
    {r \in RowsOf(dataView) :
        \A l \in 1..Len(key) : Categories(dataView)[l].values[r] = key[l]}

RECURSIVE SumOf(_, _)
\* the sum of the primary measure over a set of rows
SumOf(dataView, rows) ==
    IF rows = {} THEN 0
    ELSE LET r == CHOOSE x \in rows : TRUE
         IN  Measures(dataView)[1].values[r].v + SumOf(dataView, rows \ {r})

RECURSIVE Tokens(_)
RECURSIVE TokensOfAll(_)
\* the rows (1, 2, ...) of the tokens in a selectionId, nesting flattened; 0
\* stands for an element that is undefined
Tokens(selectionId) ==
    IF selectionId.t = "object" THEN <<selectionId.i + 1>>
    ELSE IF selectionId.t = "undefined" THEN <<0>>
    ELSE TokensOfAll(selectionId.a)
TokensOfAll(elements) ==
    IF elements = <<>> THEN <<>>
    ELSE Tokens(Head(elements)) \o TokensOfAll(Tail(elements))

\* the rows of a set, in row order
RowSeq(dataView, rows) ==
    SelectSeq([r \in RowsOf(dataView) |-> r], LAMBDA r : r \in rows)

\* the category nodes of the deepest category level
IsLeafNode(dataView, node) ==
    IsCategoryNode(node) /\ node.group.n = Len(Categories(dataView))

\* the children of node p that are category nodes, in link order
Children(data, p) ==
    SelectSeq([i \in 1..Len(data.nodes) |-> i],
              LAMBDA i : /\ i > 1
                         /\ IsCategoryNode(data.nodes[i])
                         /\ data.links[i].source.n = data.nodes[p].id.n)

RECURSIVE TokensOfNodes(_, _)
TokensOfNodes(data, indices) ==
    IF indices = <<>> THEN <<>>
    ELSE Tokens(data.nodes[Head(indices)].selectionId) \o TokensOfNodes(data, Tail(indices))

----------------------------------------------------------------------------
(* Properties *)

\* C1: for any table, the aggregate value (numberOfLeads) of the root and of
\* every category node is the sum of the primary measure over exactly the rows
\* whose category values equal the node's key at every level of the key (all
\* rows for the root), whatever text the category values contain.
C1_AggregateOverMatchingRows ==
    (Built /\ IsTable(table)) =>
        \A i \in 1..Len(graph.nodes) :
            ~IsStageNode(graph.nodes[i]) =>
                graph.nodes[i].numberOfLeads
                    = Num(SumOf(table, MatchingRows(table, KeyOf(graph, i))))

\* C2: after the build, every row token in the selectionId of every node
\* (nesting flattened) belongs to a row whose category values equal the
\* node's key at every level of the key.
C2_TokensOfMatchingRows ==
    (Built /\ IsTable(table)) =>
        \A i \in 1..Len(graph.nodes) :
            \A t \in Range(Tokens(graph.nodes[i].selectionId)) :
                t # 0 => t \in MatchingRows(table, KeyOf(graph, i))

\* C3: after addSelection, the selectionId of every category node of the
\* deepest level holds exactly the tokens of the rows whose category path is
\* the node's key: one per matching row, in row order.
C3_LeafTokensExact ==
    (Built /\ IsTable(table)) =>
        \A i \in 1..Len(graph.nodes) :
            IsLeafNode(table, graph.nodes[i]) =>
                Tokens(graph.nodes[i].selectionId)
                    = RowSeq(table, MatchingRows(table, KeyOf(graph, i)))

\* C4: after addSelection, for any number of category levels, the selectionId
\* of every category node above the deepest level is the union, in child-link
\* order, of the selectionIds of its direct children.
C4_ParentTokensAreChildrens ==
    (Built /\ IsTable(table)) =>
        \A p \in 1..Len(graph.nodes) :
            (IsCategoryNode(graph.nodes[p]) /\ ~IsLeafNode(table, graph.nodes[p])) =>
                Tokens(graph.nodes[p].selectionId)
                    = TokensOfNodes(graph, Children(graph, p))

\* whether a number is finite and not zero
NonZero(x) == x.t = "fin" /\ x.n # 0

\* C5: the percentage of every category node whose parent has a non-zero
\* aggregate is the node's aggregate value divided by its parent's; the
\* root's percentage is 1.
C5_PercentageOfParent ==
    (Built /\ ~returned.fault /\ graph.nodes # <<>>) =>
        /\ graph.nodes[1].percentage = Num(1)
        /\ \A i \in 2..Len(graph.nodes) :
               (/\ IsCategoryNode(graph.nodes[i])
                /\ NonZero(graph.nodes[ParentOf(graph, i)].numberOfLeads)) =>
                   graph.nodes[i].percentage
                       = Div(graph.nodes[i].numberOfLeads,
                             graph.nodes[ParentOf(graph, i)].numberOfLeads)

\* a category node below the top level whose aggregate is a proper part of
\* its parent's non-zero aggregate
C5_Witness ==
    /\ Built /\ IsTable(table)
    /\ \E i \in 2..Len(graph.nodes) :
           /\ IsCategoryNode(graph.nodes[i])
           /\ graph.nodes[i].group.n >= 2
           /\ NonZero(graph.nodes[ParentOf(graph, i)].numberOfLeads)
           /\ graph.nodes[i].percentage.t = "fin"
           /\ graph.nodes[i].percentage.d > 1

\* C6: the percentage of every node other than the root whose parent
\* aggregate (for a measure-stage node: the value of the stage before it) is 0
\* is exactly 0, and no node has a percentage that is NaN or infinite.
C6_ZeroParentGivesZero ==
    (Built /\ IsTable(table)) =>
        /\ \A i \in 2..Len(graph.nodes) :
               (/\ \E p \in 1..Len(graph.nodes) :
                       graph.nodes[p].id.n = graph.links[i].source.n
                /\ graph.nodes[ParentOf(graph, i)].numberOfLeads = Num(0)) =>
                   graph.nodes[i].percentage = Num(0)
        /\ \A i \in 1..Len(graph.nodes) : graph.nodes[i].percentage.t = "fin"

\* C7: every node other than the root has the color of the legend entry of
\* the first component of its key, so that two nodes whose keys have the same
\* first component have the same color, whatever the deeper values are.
C7_ColorOfTopLevelCategory ==
    (Built /\ IsTable(table)) =>
        \A i \in 2..Len(graph.nodes) :
            \E e \in Range(returned.legendDataPoints) :
                /\ e.category = KeyOf(graph, i)[1]
                /\ graph.nodes[i].color = e.color

\* C8: a call of converter on the data view and settings of the first call
\* returns the node list, the link list and the legend entries the first call
\* returned, whatever was built in between.
C8_SameBuildSameGraph ==
    (Built /\ firstBuild.set /\ table = firstBuild.dataView) =>
        returned = firstBuild.returned

\* C9: when the data view has no category column or no measure column
\* (missing or empty), converter returns an empty node list and an empty
\* link list.
C9_NoColumnsNoGraph ==
    (Built /\ ~HasColumns(table)) =>
        /\ ~returned.fault
        /\ graph = getDefaultData
        /\ visual.data = getDefaultData

\* update has run on a data view whose category columns are there and whose
\* measure columns are an empty list
C9_Witness ==
    /\ Built
    /\ table.categorical.hasCategories /\ Categories(table) # <<>>
    /\ table.categorical.hasValues /\ Measures(table) = <<>>
    /\ graph = getDefaultData

\* C10: when the category and measure columns do not all have the same number
\* of rows, converter returns an empty node list and an empty link list: it
\* neither builds a graph from part of the rows nor throws.
C10_UnequalLengthsNoGraph ==
    (Built /\ HasColumns(table) /\ ~SameLengths(table)) =>
        /\ ~returned.fault
        /\ graph = getDefaultData

\* every measure value of the data view is a number
NumericMeasures(dataView) ==
    \A m \in 1..Len(Measures(dataView)) : \A r \in 1..Len(Measures(dataView)[m].values) :
        Measures(dataView)[m].values[r].k = "num"

\* no category value of the data view is null or undefined
TextCategories(dataView) ==
    \A c \in 1..Len(Categories(dataView)) : \A r \in 1..Len(Categories(dataView)[c].values) :
        Categories(dataView)[c].values[r] \notin {NullValue, UndefValue}

\* C11: a table with a null value in a category column is still built:
\* converter completes without a fault, the root's aggregate is the sum over
\* all rows, and the graph has a node for the null group.
C11_NullCategoryIsBuilt ==
    (/\ Built /\ HasColumns(table) /\ SameLengths(table) /\ NumericMeasures(table)
     /\ hasNull(Categories(table), NullValue)) =>
        /\ ~returned.fault
        /\ graph.nodes # <<>>
        /\ graph.nodes[1].numberOfLeads = Num(SumOf(table, RowsOf(table)))
        /\ \E i \in 2..Len(graph.nodes) : graph.nodes[i].name = NullValue

RECURSIVE SumOfNumbers(_, _)
\* the sum of the primary measure over a set of rows, a value that is no number
\* counting as 0
SumOfNumbers(dataView, rows) ==
    IF rows = {} THEN 0
    ELSE LET r == CHOOSE x \in rows : TRUE
             m == Measures(dataView)[1].values[r]
         IN  (IF m.k = "num" THEN m.v ELSE 0) + SumOfNumbers(dataView, rows \ {r})

\* C12: a null or non-numeric value in the primary measure counts as 0: the
\* build completes and the aggregate of the root and of every category node
\* is the sum of the numeric values of the rows its key covers.
C12_BadMeasureCountsAsZero ==
    (/\ Built /\ HasColumns(table) /\ SameLengths(table) /\ TextCategories(table)
     /\ \E r \in RowsOf(table) : Measures(table)[1].values[r].k \in {"null", "str"}) =>
        /\ ~returned.fault
        /\ graph.nodes # <<>>
        /\ \A i \in 1..Len(graph.nodes) :
               ~IsStageNode(graph.nodes[i]) =>
                   graph.nodes[i].numberOfLeads
                       = Num(SumOfNumbers(table, MatchingRows(table, KeyOf(graph, i))))

\* the graph update passes to the layout has a link whose source or target is
\* no node, the data view has no measure column to take the label unit from,
\* or there are no legend data points to draw
LayoutFault ==
    \/ ~visual.legendDefined
    \/ ~table.categorical.hasValues
    \/ Measures(table) = <<>>
    \/ \E l \in Range(graph.links) :
           \/ \A n \in Range(graph.nodes) : n.id.n # l.source.n
           \/ \A n \in Range(graph.nodes) : n.id.n # l.target.n

\* C13: every call of update reports renderingStarted and then exactly one of
\* renderingFinished and renderingFailed, and renderingFailed whenever the
\* construction of the graph or the configuration of the layout faulted.
C13_StartedThenOneOutcome ==
    Built =>
        /\ Len(events) = 2
        /\ events[1] = "renderingStarted"
        /\ events[2] \in {"renderingFinished", "renderingFailed"}
        /\ (returned.fault \/ LayoutFault) => events[2] = "renderingFailed"

\* update has run on a table and converter threw
C13_WitnessConverterFault ==
    Built /\ HasColumns(table) /\ returned.fault /\ events[2] = "renderingFailed"

\* C14: once update has been called again, the simulation of the previous
\* update is stopped: no earlier simulation has a running timer, and no tick
\* callback of an earlier simulation runs.
C14_PreviousSimulationStopped ==
    /\ \A sim \in superseded : sim.heat = 0
    /\ lastTick # "superseded"

\* fx and fy hold the node where it is
Pinned(d) == d.fx.t = "fin" /\ d.fy.t = "fin"

\* fx and fy of every node on screen
Pins == [i \in DOMAIN layout |-> <<layout[i].fx, layout[i].fy>>]

\* C15: a node is pinned exactly while it is being dragged; dragstarted pins
\* it where it is, dragged moves the pin to the pointer, dragended clears the
\* pin, and a step that changes fx or fy of a node is one of these three, or
\* an update, which draws new nodes: never a tick, a pan, a zoom or a click.
C15_PinnedExactlyWhileDragged ==
    /\ [](\A i \in DOMAIN layout : Pinned(layout[i]) <=> dragging = i)
    /\ [][/\ (dragging = 0 /\ dragging' # 0) =>
                /\ layout'[dragging'].fx = layout[dragging'].x
                /\ layout'[dragging'].fy = layout[dragging'].y
          /\ (dragging # 0 /\ dragging' = dragging /\ Pins' # Pins) =>
                \E event \in Pointers :
                    /\ layout'[dragging].fx = event.x
                    /\ layout'[dragging].fy = event.y
          /\ (Pins' # Pins) => (DragStarted \/ Dragged \/ DragEnded \/ Update)]_vars

\* a node is being dragged, the pointer has moved it, and the simulation has
\* ticked since
C15_WitnessDraggedAway ==
    /\ dragging # 0
    /\ lastTick = "current"
    /\ layout[dragging].fx = Num(40)
    /\ layout[dragging].x = Num(40)

\* the visual with the view box of another state of it
WithViewBox(this, other) ==
    [this EXCEPT !.minXView = other.minXView, !.minYView = other.minYView,
                 !.width = other.width, !.height = other.height]

\* C16: a pan or a zoom changes at most minXView, minYView, width and height:
\* the graph, the nodes on screen with their pins, the simulations and the
\* selection are as before, whether or not a node is being dragged and
\* whatever the simulations have done.
C16_PanZoomOnlyViewBox ==
    [][(Pan \/ Zoom) =>
          /\ WithViewBox(visual', visual) = visual
          /\ UNCHANGED <<layout, simulation, superseded, dragging, selected, managerIds,
                         returned>>]_vars

\* the view box has been zoomed out while a node is being dragged and the
\* simulation ticks
C16_WitnessZoomDuringDrag ==
    /\ dragging # 0
    /\ lastTick = "current"
    /\ visual.width = Num(1200)
    /\ Len(visual.data.nodes) = Len(layout)

\* the measure columns that are flow stages: those not in the role "root"
FlowStages(dataView) ==
    {m \in 1..Len(Measures(dataView)) : ~Measures(dataView)[m].source.roles.root}

\* the first flow stage
FirstStage(dataView) ==
    CHOOSE m \in FlowStages(dataView) : \A other \in FlowStages(dataView) : m <= other

\* the flow stage node i stands for
StageOf(dataView, node) ==
    CHOOSE m \in 1..Len(Measures(dataView)) :
        Measures(dataView)[m].source.displayName = node.name

\* update has built the graph of a table with more than one flow stage
BuiltChains ==
    /\ Built
    /\ IsTable(table)
    /\ ~returned.fault
    /\ Cardinality(FlowStages(table)) > 1

\* C17: with more than one flow stage, the link into the node of the first
\* flow stage comes from the deepest category node the chain hangs under, and
\* the link into the node of a later stage comes from the stage node before it
\* in the chain, wherever a measure in the role "root" stands.
C17_StageLinksFormChain ==
    BuiltChains =>
        \A i \in 1..Len(graph.nodes) :
            IsStageNode(graph.nodes[i]) =>
                IF StageOf(table, graph.nodes[i]) = FirstStage(table)
                THEN /\ IsLeafNode(table, graph.nodes[OwnerOf(graph, i)])
                     /\ graph.links[i].source.n = graph.nodes[OwnerOf(graph, i)].id.n
                ELSE /\ IsStageNode(graph.nodes[i - 1])
                     /\ graph.links[i].source.n = graph.nodes[i - 1].id.n

\* the flow stage before flow stage m
PreviousStage(dataView, m) ==
    CHOOSE q \in FlowStages(dataView) :
        q < m /\ \A other \in FlowStages(dataView) : other < m => other <= q

\* the row the chain of stage node i stands for: the chains under a category
\* node follow the rows of the node in row order
ChainRow(dataView, data, i) ==
    RowSeq(dataView, MatchingRows(dataView, KeyOf(data, i)))[
        Cardinality({q \in (OwnerOf(data, i) + 1)..i :
                        data.nodes[q].name = data.nodes[i].name})]

\* the value of measure m in row r
ValueOf(dataView, m, r) == Num(Measures(dataView)[m].values[r].v)

\* C18: the value of a stage node is the value of its measure in the row of
\* its chain, the percentage of the node of the first flow stage is 1, and the
\* percentage of a later stage node is its value divided by the value of the
\* flow stage before it.
C18_StageValueAndPercentage ==
    BuiltChains =>
        \A i \in 1..Len(graph.nodes) :
            IsStageNode(graph.nodes[i]) =>
                /\ graph.nodes[i].numberOfLeads =
                       ValueOf(table, StageOf(table, graph.nodes[i]), ChainRow(table, graph, i))
                /\ graph.nodes[i].percentage =
                       IF StageOf(table, graph.nodes[i]) = FirstStage(table) THEN Num(1)
                       ELSE Div(ValueOf(table, StageOf(table, graph.nodes[i]),
                                        ChainRow(table, graph, i)),
                                ValueOf(table,
                                        PreviousStage(table, StageOf(table, graph.nodes[i])),
                                        ChainRow(table, graph, i)))

\* the stage nodes of measure m that hang under node p
StageNodes(dataView, data, p, m) ==
    {i \in 1..Len(data.nodes) :
        /\ IsStageNode(data.nodes[i])
        /\ OwnerOf(data, i) = p
        /\ StageOf(dataView, data.nodes[i]) = m}

\* C19: with more than one flow stage every deepest category node has one
\* stage node for each flow stage and none for another measure, however many
\* rows share its category path; with at most one flow stage there are no
\* stage nodes.
C19_OneChainPerLeaf ==
    (Built /\ IsTable(table) /\ ~returned.fault) =>
        \A p \in 1..Len(graph.nodes) :
            IsLeafNode(table, graph.nodes[p]) =>
                \A m \in 1..Len(Measures(table)) :
                    Cardinality(StageNodes(table, graph, p, m)) =
                        IF Cardinality(FlowStages(table)) > 1 /\ m \in FlowStages(table)
                        THEN 1 ELSE 0

\* the key of row r down to level d, and the keys of level d in the table
PrefixOf(dataView, r, d) == [l \in 1..d |-> Categories(dataView)[l].values[r]]
Prefixes(dataView, d) == {PrefixOf(dataView, r, d) : r \in RowsOf(dataView)}

\* the category nodes of level d
NodesOfLevel(data, d) ==
    {i \in 1..Len(data.nodes) : IsCategoryNode(data.nodes[i]) /\ data.nodes[i].group.n = d}

\* C20: keys are compared component by component, whatever text the category
\* values are: at every level the graph has one category node for each of the
\* different keys of the level, and the node of a key aggregates the rows that
\* have this key and no row of another key.
C20_KeysComparedByComponents ==
    (Built /\ IsTable(table)) =>
        \A d \in 1..Len(Categories(table)) :
            /\ Cardinality(NodesOfLevel(graph, d)) = Cardinality(Prefixes(table, d))
            /\ \A key \in Prefixes(table, d) :
                   \E i \in NodesOfLevel(graph, d) :
                       /\ graph.nodes[i].name = key[d]
                       /\ graph.nodes[i].numberOfLeads
                              = Num(SumOf(table, MatchingRows(table, key)))

\* the nodes with the id a link end names
NodesWithId(data, id) == {p \in 1..Len(data.nodes) : data.nodes[p].id.n = id.n}

\* C21: but for the self-loop of the root, every link goes from a node to a
\* node of a strictly greater level (group): from a category node to its
\* child, from a deepest category node to its first stage node, and from a
\* stage node to the next.
C21_LinksGoDeeper ==
    (Built /\ IsTable(table) /\ ~returned.fault) =>
        \A i \in 2..Len(graph.links) :
            \E s \in NodesWithId(graph, graph.links[i].source) :
                \E t \in NodesWithId(graph, graph.links[i].target) :
                    graph.nodes[t].group.n > graph.nodes[s].group.n

\* the node list, the link list and the legend entries a visual holds when
\* its call of converter has returned c
HeldAfter(c) == <<IF c.fault THEN c.this.data ELSE c.data, c.this.legendDataPoints>>

\* what a visual holds whose first update is one with this data view
HeldByFirstUpdate(dataView) ==
    HeldAfter(converter([Constructed EXCEPT !.dataViews = dataView], dataView,
                        getRootSettings(dataView)))

\* C22: after an update, whatever its outcome, the nodes, the links and the
\* legend entries the visual holds are those of the data view of this update
\* alone: they are what a visual holds that has seen no other data view.
C22_RefreshReplacesAll ==
    Built => <<visual.data, visual.legendDataPoints>> = HeldByFirstUpdate(table)

\* the values of a sequence, each once, in the order they are first seen
FirstSeen(values) ==
    LET firsts == SelectSeq([i \in 1..Len(values) |-> i],
                            LAMBDA i : \A j \in 1..(i - 1) : values[j] # values[i])
    IN  [k \in 1..Len(firsts) |-> values[firsts[k]]]

\* the values at the level below key in the rows of key, in row order
ValuesUnder(dataView, key) ==
    LET rows == RowSeq(dataView, MatchingRows(dataView, key))
    IN  [k \in 1..Len(rows) |-> Categories(dataView)[Len(key) + 1].values[rows[k]]]

RECURSIVE KeysUnder(_, _)
RECURSIVE KeysOfValues(_, _, _)
\* the keys of the nodes below the node of key, depth first, children in
\* first-seen row order
KeysUnder(dataView, key) ==
    IF Len(key) = Len(Categories(dataView)) THEN <<>>
    ELSE KeysOfValues(dataView, key, FirstSeen(ValuesUnder(dataView, key)))
KeysOfValues(dataView, key, values) ==
    IF values = <<>> THEN <<>>
    ELSE <<Append(key, Head(values))>>
             \o KeysUnder(dataView, Append(key, Head(values)))
             \o KeysOfValues(dataView, key, Tail(values))

\* the category nodes of a graph, in list order
CategoryNodes(data) ==
    SelectSeq([i \in 1..Len(data.nodes) |-> i], LAMBDA i : IsCategoryNode(data.nodes[i]))

\* the id of the node of a key, when the ids follow the order of keys
IdOfKey(keys, key) ==
    IF key = <<>> THEN 0 ELSE CHOOSE k \in 1..Len(keys) : keys[k] = key

\* C23: the children under a node are the distinct values of the next level
\* among the rows of the node's key, each once, in first-seen row order (the
\* distinct values of the first column under the root), and the ids and the
\* list positions of the category nodes follow this order depth first.
C23_ChildrenInFirstSeenOrder ==
    (Built /\ IsTable(table) /\ ~returned.fault) =>
        /\ Len(CategoryNodes(graph)) = Len(KeysUnder(table, <<>>))
        /\ \A k \in 1..Len(CategoryNodes(graph)) :
               /\ graph.nodes[CategoryNodes(graph)[k]].id.n = k
               /\ graph.nodes[CategoryNodes(graph)[k]].group.n = Len(KeysUnder(table, <<>>)[k])
               /\ graph.nodes[CategoryNodes(graph)[k]].name
                      = KeysUnder(table, <<>>)[k][Len(KeysUnder(table, <<>>)[k])]
               /\ graph.links[CategoryNodes(graph)[k]].source.n
                      = IdOfKey(KeysUnder(table, <<>>),
                                SubSeq(KeysUnder(table, <<>>)[k], 1,
                                       Len(KeysUnder(table, <<>>)[k]) - 1))

\* the circles of the graph have been drawn
Drawn == Built /\ Len(layout) > 0

\* C24: the circle of the root has the greatest radius of the scale, 30, for
\* every table and every root label setting, also when measure values are
\* negative.
C24_RootHasMaximumRadius ==
    (Drawn /\ IsTable(table)) =>
        \A flat \in FlatValues : radius(graph.nodes[1], maxOf(graph), flat) = Num(30)

\* the nodes on screen are where the last tick of the simulation put them
Ticked == lastTick = "current" /\ \A i \in DOMAIN layout : layout[i].label # "none"

\* |x - y| < 50
Near(x, y) ==
    Less(Add(x, Frac(-y.n, y.d)), Num(50)) /\ Less(Add(y, Frac(-x.n, x.d)), Num(50))

\* C25: at a tick, the label of a node other than the root that is less than
\* 50 from the root horizontally is above the node when the node is above
\* the root (smaller y) and below it when the node is below the root; the
\* label of any other node is on the left when the node is left of the root
\* and on the right otherwise.
C25_LabelSideFollowsRoot ==
    Ticked =>
        \A i \in 2..Len(layout) :
            IF Near(layout[i].x, layout[1].x)
            THEN /\ Less(layout[i].y, layout[1].y) => layout[i].label = "above"
                 /\ Less(layout[1].y, layout[i].y) => layout[i].label = "below"
            ELSE layout[i].label = IF Less(layout[i].x, layout[1].x) THEN "left" ELSE "right"

\* the links into the node with an id
LinksInto(data, id) == {l \in 1..Len(data.links) : data.links[l].target.n = id.n}

\* C26: in every graph converter returns the ids of the nodes are pairwise
\* distinct, the source and the target of every link are ids of nodes, and
\* every node is the target of exactly one link, the root of its self-loop:
\* nodes and links form a tree rooted at the node 0.
C26_GraphIsTree ==
    (Built /\ ~returned.fault) =>
        /\ \A p, q \in 1..Len(graph.nodes) :
               graph.nodes[p].id.n = graph.nodes[q].id.n => p = q
        /\ \A l \in 1..Len(graph.links) :
               /\ NodesWithId(graph, graph.links[l].source) # {}
               /\ NodesWithId(graph, graph.links[l].target) # {}
        /\ \A p \in 1..Len(graph.nodes) :
               /\ Cardinality(LinksInto(graph, graph.nodes[p].id)) = 1
               /\ \A l \in LinksInto(graph, graph.nodes[p].id) :
                      (graph.links[l].source.n = graph.nodes[p].id.n) <=> (p = 1)

RECURSIVE SumOfNodes(_, _)
\* the sum of the aggregate values of the nodes at the given list positions
SumOfNodes(data, indices) ==
    IF indices = <<>> THEN Num(0)
    ELSE Add(data.nodes[Head(indices)].numberOfLeads, SumOfNodes(data, Tail(indices)))

\* C27: the aggregate values of the category children of a node add up to
\* the aggregate value of the node; those of the nodes of the first level add
\* up to the total of the root.
C27_ChildrenSumToParent ==
    (Built /\ IsTable(table) /\ ~returned.fault) =>
        \A p \in 1..Len(graph.nodes) :
            Children(graph, p) # <<>> =>
                SumOfNodes(graph, Children(graph, p)) = graph.nodes[p].numberOfLeads

\* C28: the list assignValue builds from the selectionId of a node, which the
\* click on the node passes to the selection manager, holds every row token
\* that is anywhere in the selectionId, however nested, and nothing else, for
\* the nodes of every level.
C28_ClickSelectsAllTokens ==
    (Built /\ IsTable(table) /\ ~returned.fault) =>
        \A i \in 1..Len(graph.nodes) :
            graph.nodes[i].selectionId.t # "undefined" =>
                /\ ~assignValueThrows(graph.nodes[i].selectionId)
                /\ Range(assignValue(graph.nodes[i].selectionId))
                       = Range(Tokens(graph.nodes[i].selectionId))

\* the selection manager holds the selection of the node that is marked
HoldsMarked ==
    /\ selected # 0
    /\ managerIds # <<>>
    /\ managerIds = assignValue(visual.data.nodes[selected].selectionId)

\* C29: after a click on a node or on the background, a circle carries the
\* mark 'selected' if and only if the selection manager holds the selection
\* of its node; after a click on the background, which clears the manager, no
\* circle is marked.
C29_MarkedIffSelected ==
    [][/\ BackgroundClick => selected' = 0
       /\ NodeClick => (IF selected' = 0 THEN managerIds' = <<>> ELSE HoldsMarked')]_vars

\* C30: when a drag of a node has ended and no drag is going on, the alpha
\* target of the simulation is back at its resting value 0, so that the
\* simulation cools down and its timer stops.
C30_AlphaTargetRestsAfterDrag ==
    dragging = 0 => simulation.alphaTarget = 0


=============================================================================
